---- MODULE Spec2Model ----
(***************************************************************************)
(* Model of robot.running.arguments.typeinfo: the TypeInfo descriptor, its *)
(* arity validation, the builders (from_type_hint, from_type, from_string, *)
(* from_dict, from_sequence), TypeInfo.convert and TypedDictInfo.          *)
(*                                                                         *)
(* A descriptor is a record [k |-> "info", name, type, nested, td]; a      *)
(* raised exception is a record [k |-> "err", exc, ...].  Type handles and *)
(* names are strings.                                                      *)
(***************************************************************************)
EXTENDS Integers, Sequences, FiniteSets, TLC

VARIABLES
    pc, op, arg, ret,      \* a builder call: its name, argument and result
    ctx,                   \* EXECUTION_CONTEXTS.current
    cargs, lookup, calls,  \* a convert call: its arguments, what converter_for
    outcome,               \*   received, the converter calls made, the outcome
    env, start, stack, rpc \* step-wise resolution of a TypedDict hint

buildVars == <<pc, op, arg, ret>>

convVars == <<ctx, cargs, lookup, calls, outcome>>

recVars == <<env, start, stack, rpc>>

vars == <<pc, op, arg, ret, ctx, cargs, lookup, calls, outcome, env, start, stack, rpc>>

(***************************************************************************)
(* Bounds of the model.                                                    *)
(***************************************************************************)
MaxLen == 2
MaxNodes == 3
MaxNested == 3
MaxFields == 2
MaxDepth == 4

(***************************************************************************)
(* Values standing for Python's None in the name and type slots.           *)
(***************************************************************************)
NoName == "<None>"
NoType == "<None>"

(***************************************************************************)
(* TYPE_NAMES: lower-case alias -> type handle (NoType: no such alias).    *)
(***************************************************************************)
TYPE_NAMES(alias) ==
    CASE alias = "..." -> "Ellipsis"
      [] alias = "ellipsis" -> "Ellipsis"
      [] alias = "any" -> "Any"
      [] alias \in {"str", "string", "unicode"} -> "str"
      [] alias \in {"bool", "boolean"} -> "bool"
      [] alias \in {"int", "integer", "long"} -> "int"
      [] alias \in {"float", "double"} -> "float"
      [] alias = "decimal" -> "Decimal"
      [] alias = "bytes" -> "bytes"
      [] alias = "bytearray" -> "bytearray"
      [] alias = "datetime" -> "datetime"
      [] alias = "date" -> "date"
      [] alias = "timedelta" -> "timedelta"
      [] alias = "path" -> "Path"
      [] alias = "none" -> "NoneType"
      [] alias \in {"list", "sequence"} -> "list"
      [] alias = "tuple" -> "tuple"
      [] alias \in {"dictionary", "dict", "mapping", "map"} -> "dict"
      [] alias = "set" -> "set"
      [] alias = "frozenset" -> "frozenset"
      [] alias = "union" -> "Union"
      [] OTHER -> NoType

TYPE_NAMES_values ==
    {"Ellipsis", "Any", "str", "bool", "int", "float", "Decimal", "bytes",
     "bytearray", "datetime", "date", "timedelta", "Path", "NoneType", "list",
     "tuple", "dict", "set", "frozenset", "Union"}

(***************************************************************************)
(* str.lower() on the names the model uses.                                *)
(***************************************************************************)
lower(name) ==
    CASE name = "Union" -> "union"
      [] name = "Dict" -> "dict"
      [] name = "Mapping" -> "mapping"
      [] name = "Tuple" -> "tuple"
      [] name = "List" -> "list"
      [] name = "Any" -> "any"
      [] name = "None" -> "none"
      [] name = "Point" -> "point"
      [] name = "Custom" -> "custom"
      [] name = "OrderedDict" -> "ordereddict"
      [] OTHER -> name

(***************************************************************************)
(* Python's type predicates on the handles.  The TypedDict classes "Point" *)
(* and "Union" (a TypedDict that happens to be called Union) are dict      *)
(* subclasses; "OrderedDict" is a Mapping outside TYPE_NAMES; "Custom" is  *)
(* a plain class.                                                          *)
(***************************************************************************)
TypedDictClasses == {"TD:Point", "TD:Union"}

(* isinstance(typ, type).  Any is no class before Python 3.11 and one from  *)
(* 3.11 on; the setter reports the same error for it either way (line 104  *)
(* or line 118).                                                           *)
isinstance_type(typ) == typ \notin {"Ellipsis", "Any", "Union"}

issubclass_tuple(typ) == typ = "tuple"

issubclass_Sequence(typ) == typ \in {"tuple", "list", "str", "bytes", "bytearray"}

issubclass_str_bytes(typ) == typ \in {"str", "bytes", "bytearray"}

issubclass_Set(typ) == typ \in {"set", "frozenset"}

issubclass_Mapping(typ) == typ \in {"dict", "OrderedDict"} \cup TypedDictClasses

(***************************************************************************)
(* Results: descriptors and raised exceptions.                             *)
(***************************************************************************)
IsErr(r) == r.k = "err"

(***************************************************************************)
(* Only({e(x) : x \in {v}}) is e(v) with v evaluated once.                 *)
(***************************************************************************)
Only(S) == CHOOSE x \in S : TRUE

IsInfo(r) == r.k = "info"

EmptyUnionError ==
    [k |-> "err", exc |-> "DataError",
     msg |-> "Union used as a type hint cannot be empty."]

is_union(info) == info.name = "Union"

(***************************************************************************)
(* TypeInfo.__str__                                                        *)
(***************************************************************************)
RECURSIVE TypeInfo_str(_)
RECURSIVE join(_, _, _)
join(sep, infos, i) ==
    IF i > Len(infos) THEN ""
    ELSE IF i = Len(infos) THEN TypeInfo_str(infos[i])
    ELSE TypeInfo_str(infos[i]) \o sep \o join(sep, infos, i + 1)

TypeInfo_str(info) ==
    IF is_union(info) THEN join(" | ", info.nested, 1)
    ELSE IF Len(info.nested) > 0
         THEN info.name \o "[" \o join(", ", info.nested, 1) \o "]"
    ELSE IF info.name = NoName THEN "" ELSE info.name

(***************************************************************************)
(* f"{self.name}" inside the error messages: None renders as 'None'.       *)
(***************************************************************************)
fmt_name(name) == IF name = NoName THEN "None" ELSE name

plural_or_not(n) == IF n = 1 THEN "" ELSE "s"

(***************************************************************************)
(* TypeInfo._report_nested_error: always raises.  kind is "" when the      *)
(* caller passes none.  The message is kept in parts: msg is their         *)
(* concatenation.                                                          *)
(***************************************************************************)
report_nested_error(name, nested, expected, kind, offset) ==
    LET args == join(", ", nested, 1)
        knd == IF kind # "" THEN kind
               ELSE "'" \o fmt_name(name) \o (IF expected > 0 THEN "[]" ELSE "") \o "'"
        phrase == IF expected = 0 THEN " does not accept parameters"
                  ELSE " requires exactly " \o ToString(expected)
                       \o " parameter" \o plural_or_not(expected)
        spec == fmt_name(name) \o "[" \o args \o "]"
        actual == Len(nested) + offset
    IN [k |-> "err", exc |-> "DataError", kind |-> knd, phrase |-> phrase,
        expected |-> expected, spec |-> spec, actual |-> actual,
        msg |-> knd \o phrase \o ", '" \o spec \o "' has "
                \o ToString(actual) \o "."]

(***************************************************************************)
(* The nested setter: [k |-> "ok", nested |-> the tuple] or the raised     *)
(* error.  One operator per branch of the setter.                          *)
(***************************************************************************)
accepted(nested) == [k |-> "ok", nested |-> nested]

nested_union_any(nested) == accepted(nested)

nested_union(nested) ==
    IF Len(nested) = 0 THEN EmptyUnionError ELSE accepted(nested)

nested_tuple_no_offset(name, nested) ==
    IF nested[Len(nested)].type = "Ellipsis" /\ Len(nested) # 2
    THEN report_nested_error(name, nested, 1, "Homogenous tuple", 0)
    ELSE accepted(nested)

nested_tuple(name, nested) ==
    IF nested[Len(nested)].type = "Ellipsis" /\ Len(nested) # 2
    THEN report_nested_error(name, nested, 1, "Homogenous tuple", -1)
    ELSE accepted(nested)

nested_sequence(name, nested) ==
    IF Len(nested) # 1 THEN report_nested_error(name, nested, 1, "", 0)
    ELSE accepted(nested)

nested_set(name, nested) ==
    IF Len(nested) # 1 THEN report_nested_error(name, nested, 1, "", 0)
    ELSE accepted(nested)

nested_mapping_at_most_2(name, nested) ==
    IF Len(nested) > 2 THEN report_nested_error(name, nested, 2, "", 0)
    ELSE accepted(nested)

nested_mapping(name, nested) ==
    IF Len(nested) # 2 THEN report_nested_error(name, nested, 2, "", 0)
    ELSE accepted(nested)

nested_setter(name, typ, nested) ==
    IF name = "Union" THEN nested_union(nested)
    ELSE IF typ = NoType \/ Len(nested) = 0 THEN accepted(nested)
    ELSE IF ~isinstance_type(typ)
         THEN report_nested_error(name, nested, 0, "", 0)
    ELSE IF issubclass_tuple(typ) THEN nested_tuple(name, nested)
    ELSE IF issubclass_Sequence(typ) /\ ~issubclass_str_bytes(typ)
         THEN nested_sequence(name, nested)
    ELSE IF issubclass_Set(typ) THEN nested_set(name, nested)
    ELSE IF issubclass_Mapping(typ) THEN nested_mapping(name, nested)
    ELSE IF typ \in TYPE_NAMES_values
         THEN report_nested_error(name, nested, 0, "", 0)
    ELSE accepted(nested)

(***************************************************************************)
(* TypeInfo.__init__(name, type, nested)                                   *)
(***************************************************************************)
TypeInfo(name, type, nested) ==
    LET typ == IF name # NoName /\ name # "" /\ type = NoType
               THEN TYPE_NAMES(lower(name)) ELSE type
    IN Only({IF IsErr(res) THEN res
             ELSE [k |-> "info", name |-> name, type |-> typ,
                   nested |-> res.nested, td |-> <<>>]
             : res \in {nested_setter(name, typ, nested)}})

(***************************************************************************)
(* Raw type hints.  A hint is a record [k, name, type, items, flag]:       *)
(*   k = "NOT_SET" | "typeddict" | "union" | "generic" | "str" | "dict" |  *)
(*       "emptydict" | "seq" | "type" | "None" | "Union" | "Any" |         *)
(*       "Ellipsis" | "other"                                              *)
(*   typeddict: name = __name__, type = the class, items = the hints of    *)
(*              __annotations__ in order, flag = has __required_keys__     *)
(*   union:     items = __args__                                           *)
(*   generic:   name = type_repr(hint, nested=False), type = __origin__,   *)
(*              items = __args__, flag = has_args(hint)                    *)
(*   str:       name = the text                                            *)
(*   dict:      name = data['name'], type = data.get('type'),              *)
(*              items = data['nested'], flag = 'nested' in data            *)
(*   seq:       items = the elements                                       *)
(*   type:      type = the class, name = type_repr(hint)                   *)
(*   other:     name = str(hint)                                           *)
(***************************************************************************)
Hint(k, name, type, items, flag) ==
    [k |-> k, name |-> name, type |-> type, items |-> items, flag |-> flag]

(***************************************************************************)
(* robot.utils.type_repr on a class, and with nested=False on a generic.   *)
(***************************************************************************)
type_repr(hint) == hint.name

FirstErrIndex(rs) ==
    IF \E i \in 1..Len(rs) : IsErr(rs[i])
    THEN CHOOSE i \in 1..Len(rs) :
            IsErr(rs[i]) /\ \A j \in 1..(i - 1) : ~IsErr(rs[j])
    ELSE 0

(***************************************************************************)
(* TypeInfoParser(hint).parse() for the texts the model uses.              *)
(***************************************************************************)
TypeInfoParser_parse(text) ==
    CASE text = "int | float" ->
            TypeInfo("Union", NoType, <<TypeInfo("int", NoType, <<>>),
                                        TypeInfo("float", NoType, <<>>)>>)
      [] text = "list[int]" ->
            TypeInfo("list", NoType, <<TypeInfo("int", NoType, <<>>)>>)
      [] text = "list[" ->
            [k |-> "err", exc |-> "ValueError",
             msg |-> "Parsing type 'list[' failed: Error at end: Closing ']' missing."]
      [] OTHER -> TypeInfo(text, NoType, <<>>)

(***************************************************************************)
(* TypeInfo.from_type                                                      *)
(***************************************************************************)
from_type(hint) == TypeInfo(type_repr(hint), hint.type, <<>>)

(***************************************************************************)
(* TypeInfo.from_string: ValueError from the parser becomes DataError.     *)
(***************************************************************************)
from_string(hint) ==
    Only({IF IsErr(r) /\ r.exc = "ValueError"
          THEN [k |-> "err", exc |-> "DataError", msg |-> r.msg]
          ELSE r
          : r \in {TypeInfoParser_parse(hint.name)}})

RECURSIVE from_type_hint(_)
RECURSIVE from_dict(_)
RECURSIVE from_sequence(_)
RECURSIVE from_sequence_loop(_, _, _)
RECURSIVE TypedDictInfo(_, _)

(***************************************************************************)
(* [cls.from_type_hint(t) for t in items]: the list, or the first error.   *)
(***************************************************************************)
from_type_hints(items) ==
    Only({IF FirstErrIndex(rs) = 0 THEN [k |-> "ok", nested |-> rs]
          ELSE rs[FirstErrIndex(rs)]
          : rs \in {[i \in 1..Len(items) |-> from_type_hint(items[i])]}})

(***************************************************************************)
(* TypedDictInfo.__init__(name, type)                                      *)
(***************************************************************************)
TypedDictInfo(name, hint) ==
    LET base == TypeInfo(name, hint.type, <<>>)
    IN IF IsErr(base) THEN base
       ELSE Only({IF IsErr(anns) THEN anns
                  ELSE [base EXCEPT !.td =
                          <<[annotations |-> anns.nested,
                             required |-> IF hint.flag THEN 1..Len(hint.items)
                                          ELSE {}]>>]
                  : anns \in {from_type_hints(hint.items)}})

(***************************************************************************)
(* TypeInfo.from_type_hint                                                 *)
(***************************************************************************)
from_type_hint(hint) ==
    CASE hint.k = "NOT_SET" -> TypeInfo(NoName, NoType, <<>>)
      [] hint.k = "typeddict" -> TypedDictInfo(hint.name, hint)
      [] hint.k = "union" ->
            Only({IF IsErr(ns) THEN ns ELSE TypeInfo("Union", NoType, ns.nested)
                  : ns \in {from_type_hints(hint.items)}})
      [] hint.k = "generic" ->
            Only({IF IsErr(ns) THEN ns
                  ELSE TypeInfo(type_repr(hint), hint.type, ns.nested)
                  : ns \in {IF hint.flag THEN from_type_hints(hint.items)
                            ELSE [k |-> "ok", nested |-> <<>>]}})
      [] hint.k = "str" -> from_string(hint)
      [] hint.k \in {"dict", "emptydict"} -> from_dict(hint)
      [] hint.k = "seq" -> from_sequence(hint.items)
      [] hint.k = "type" -> TypeInfo(type_repr(hint), hint.type, <<>>)
      [] hint.k = "None" -> TypeInfo("None", "NoneType", <<>>)
      [] hint.k = "Union" -> TypeInfo("Union", NoType, <<>>)
      [] hint.k = "Any" -> TypeInfo("Any", "Any", <<>>)
      [] hint.k = "Ellipsis" -> TypeInfo("...", "Ellipsis", <<>>)
      [] OTHER -> TypeInfo(hint.name, NoType, <<>>)

(***************************************************************************)
(* TypeInfo.from_dict                                                      *)
(***************************************************************************)
from_dict(data) ==
    IF data.k = "emptydict" THEN TypeInfo(NoName, NoType, <<>>)
    ELSE Only({IF IsErr(ns) THEN ns ELSE TypeInfo(data.name, data.type, ns.nested)
               : ns \in {from_type_hints(IF data.flag THEN data.items ELSE <<>>)}})

(***************************************************************************)
(* TypeInfo.from_sequence: the loop over the elements, then the result.    *)
(***************************************************************************)
from_sequence_loop_prepend(sequence, i, infos) ==
    IF i > Len(sequence) THEN [k |-> "ok", nested |-> infos]
    ELSE Only({IF IsErr(info) THEN info
               ELSE IF is_union(info)
                    THEN from_sequence_loop(sequence, i + 1, info.nested \o infos)
                    ELSE from_sequence_loop(sequence, i + 1, <<info>> \o infos)
               : info \in {from_type_hint(sequence[i])}})

from_sequence_loop(sequence, i, infos) ==
    IF i > Len(sequence) THEN [k |-> "ok", nested |-> infos]
    ELSE Only({IF IsErr(info) THEN info
               ELSE IF is_union(info)
                    THEN from_sequence_loop(sequence, i + 1, infos \o info.nested)
                    ELSE from_sequence_loop(sequence, i + 1, Append(infos, info))
               : info \in {from_type_hint(sequence[i])}})

from_sequence_always_union(sequence) ==
    Only({IF IsErr(r) THEN r ELSE TypeInfo("Union", NoType, r.nested)
          : r \in {from_sequence_loop(sequence, 1, <<>>)}})

from_sequence(sequence) ==
    Only({IF IsErr(r) THEN r
          ELSE IF Len(r.nested) = 1 THEN r.nested[1]
          ELSE TypeInfo("Union", NoType, r.nested)
          : r \in {from_sequence_loop(sequence, 1, <<>>)}})

(***************************************************************************)
(* The inputs of the builder calls: every hint tree of at most MaxNodes    *)
(* nodes over the shapes below, with at most MaxLen items per node, and    *)
(* some further hints used on their own or as the only item.               *)
(***************************************************************************)
IntType == Hint("type", "int", "int", <<>>, FALSE)

UnionText == Hint("str", "int | float", NoType, <<>>, FALSE)

EllipsisHint == Hint("Ellipsis", "", "Ellipsis", <<>>, FALSE)

BareUnion == Hint("Union", "", "Union", <<>>, FALSE)

ForwardRef == Hint("other", "ForwardRef('T')", NoType, <<>>, FALSE)

IntOrNone ==
    Hint("union", "", NoType,
         <<IntType, Hint("type", "None", "NoneType", <<>>, FALSE)>>, TRUE)

CoreAtoms == {IntType, UnionText, EllipsisHint, BareUnion}

(***************************************************************************)
(* What Python lets stand as an argument of a typing construct (a union, a *)
(* parametrized generic, a TypedDict annotation): no text (it becomes a    *)
(* ForwardRef, kind "other"), no dict, no list, no bare Union; a union's   *)
(* arguments are distinct and are not unions themselves.                   *)
(***************************************************************************)
TypingArg(h) == h.k \in {"type", "generic", "typeddict", "Any", "Ellipsis", "other"}

TypingArgs(items) == \A i \in 1..Len(items) : TypingArg(items[i])

Distinct(items) == \A i, j \in 1..Len(items) : i # j => items[i] # items[j]

Composites(items) ==
    {Hint("seq", "", NoType, items, FALSE),
     Hint("dict", "Union", NoType, items, TRUE)}
    \cup {Hint("generic", "tuple", "tuple", items, items # <<>>)
          : u \in {x \in {1} : TypingArgs(items)}}
    \cup {Hint("union", "", NoType, items, TRUE)
          : u \in {x \in {1} : Len(items) >= 2 /\ TypingArgs(items) /\ Distinct(items)}}

RECURSIVE HintsOfSize(_)
RECURSIVE ItemSeqs(_, _)
ItemSeqs(total, maxlen) ==
    IF total = 0 THEN {<<>>}
    ELSE IF maxlen = 0 THEN {}
    ELSE UNION {{<<h>> \o rest : h \in HintsOfSize(j),
                                 rest \in ItemSeqs(total - j, maxlen - 1)}
                : j \in 1..total}

HintsOfSize(n) ==
    IF n = 1 THEN CoreAtoms \cup Composites(<<>>)
    ELSE UNION {Composites(items) : items \in ItemSeqs(n - 1, MaxLen)}

CoreHints == UNION {HintsOfSize(n) : n \in 1..MaxNodes}

ExtraHints ==
    {Hint("NOT_SET", "", NoType, <<>>, FALSE),
     Hint("None", "", "NoneType", <<>>, FALSE),
     Hint("Any", "", "Any", <<>>, FALSE),
     ForwardRef,
     IntOrNone,
     Hint("emptydict", "", NoType, <<>>, FALSE),
     Hint("str", "list[int]", NoType, <<>>, FALSE),
     Hint("str", "list[", NoType, <<>>, FALSE),
     Hint("str", "Mapping", NoType, <<>>, FALSE),
     Hint("type", "dict", "dict", <<>>, FALSE),
     Hint("type", "Custom", "Custom", <<>>, FALSE),
     Hint("generic", "List", "list", <<>>, FALSE),
     Hint("generic", "list", "list", <<IntType>>, TRUE),
     Hint("generic", "list", "list", <<IntType, IntType>>, TRUE),
     Hint("generic", "Dict", "dict", <<IntType, IntOrNone>>, TRUE),
     Hint("dict", "Union", NoType, <<>>, FALSE),
     Hint("dict", "union", NoType, <<>>, TRUE),
     Hint("dict", "union", NoType, <<IntType>>, TRUE),
     Hint("dict", "Union", "dict", <<IntType>>, TRUE),
     Hint("dict", "Union", "dict", <<IntType, UnionText>>, TRUE),
     Hint("dict", "Union", "dict", <<IntType, UnionText, IntType>>, TRUE),
     Hint("dict", "map", NoType, <<IntType, IntType>>, TRUE),
     Hint("dict", "dict", NoType, <<IntType>>, TRUE),
     Hint("dict", "tuple", NoType, <<IntType, EllipsisHint>>, TRUE),
     Hint("dict", "tuple", NoType, <<EllipsisHint, IntType, IntType>>, TRUE),
     Hint("typeddict", "Union", "TD:Union", <<IntType>>, TRUE),
     Hint("typeddict", "Point", "TD:Point", <<IntType, IntOrNone>>, TRUE),
     Hint("typeddict", "Point", "TD:Point",
          <<IntType, Hint("generic", "list", "list", <<IntType, IntType>>, TRUE)>>, TRUE),
     Hint("typeddict", "Point", "TD:Point", <<IntType>>, FALSE)}

Hints ==
    CoreHints \cup ExtraHints
    \cup UNION {Composites(<<e>>) : e \in ExtraHints}

Sequences_ ==
    UNION {ItemSeqs(n, MaxLen) : n \in 0..MaxNodes}
    \cup {<<h>> : h \in Hints}
    \cup {<<h, IntType>> : h \in ExtraHints}
    \cup {<<UnionText, h>> : h \in ExtraHints}

(***************************************************************************)
(* Arguments of direct construction TypeInfo(name, type, nested).          *)
(***************************************************************************)
CtorNames ==
    {NoName, "", "Union", "union", "dict", "Mapping", "map", "dictionary",
     "tuple", "list", "set", "int", "Custom"}

CtorTypes == {NoType, "dict", "OrderedDict", "tuple", "Union", "Custom"}

ChildInfos ==
    {TypeInfo("int", NoType, <<>>),
     TypeInfo("...", "Ellipsis", <<>>),
     TypeInfo("Union", NoType, <<TypeInfo("int", NoType, <<>>),
                                 TypeInfo("str", NoType, <<>>)>>)}

RECURSIVE SeqsUpTo(_, _)
SeqsUpTo(S, n) ==
    IF n = 0 THEN {<<>>}
    ELSE SeqsUpTo(S, n - 1)
         \cup {Append(q, x) : q \in {r \in SeqsUpTo(S, n - 1) : Len(r) = n - 1}, x \in S}

CtorNested == SeqsUpTo(ChildInfos, MaxNested)

None == [k |-> "none"]

(***************************************************************************)
(* Builder calls: a call computes the whole result; Return forgets it.     *)
(***************************************************************************)
InitBuild == pc = "idle" /\ op = "" /\ arg = None /\ ret = None

InitConvertIdle ==
    ctx = None /\ cargs = None /\ lookup = None /\ calls = <<>> /\ outcome = None

InitRecordIdle == env = None /\ start = "" /\ stack = <<>> /\ rpc = "idle"

Call_from_type_hint ==
    /\ pc = "idle"
    /\ \E h \in Hints :
          /\ pc' = "done" /\ op' = "from_type_hint" /\ arg' = h
          /\ ret' = from_type_hint(h)
    /\ UNCHANGED <<convVars, recVars>>

Call_from_type ==
    /\ pc = "idle"
    /\ \E h \in {x \in Hints : x.k = "type"} :
          /\ pc' = "done" /\ op' = "from_type" /\ arg' = h
          /\ ret' = from_type(h)
    /\ UNCHANGED <<convVars, recVars>>

Call_from_string ==
    /\ pc = "idle"
    /\ \E h \in {x \in Hints : x.k = "str"} :
          /\ pc' = "done" /\ op' = "from_string" /\ arg' = h
          /\ ret' = from_string(h)
    /\ UNCHANGED <<convVars, recVars>>

Call_from_dict ==
    /\ pc = "idle"
    /\ \E d \in {x \in Hints : x.k \in {"dict", "emptydict"}} :
          /\ pc' = "done" /\ op' = "from_dict" /\ arg' = d
          /\ ret' = from_dict(d)
    /\ UNCHANGED <<convVars, recVars>>

Call_from_sequence ==
    /\ pc = "idle"
    /\ \E s \in Sequences_ :
          /\ pc' = "done" /\ op' = "from_sequence" /\ arg' = s
          /\ ret' = from_sequence(s)
    /\ UNCHANGED <<convVars, recVars>>

Call_TypeInfo ==
    /\ pc = "idle"
    /\ \E name \in CtorNames, type \in CtorTypes, nested \in CtorNested :
          /\ pc' = "done" /\ op' = "TypeInfo"
          /\ arg' = [name |-> name, type |-> type, nested |-> nested]
          /\ ret' = TypeInfo(name, type, nested)
    /\ UNCHANGED <<convVars, recVars>>

Return ==
    /\ pc = "done"
    /\ pc' = "idle" /\ op' = "" /\ arg' = None /\ ret' = None
    /\ UNCHANGED <<convVars, recVars>>

Next ==
    \/ Call_from_type_hint
    \/ Call_from_type
    \/ Call_from_string
    \/ Call_from_dict
    \/ Call_from_sequence
    \/ Call_TypeInfo
    \/ Return

Init == InitBuild /\ InitConvertIdle /\ InitRecordIdle

Spec == Init /\ [][Next]_vars

(***************************************************************************)
(*                         Properties of the builders                      *)
(***************************************************************************)
Called(o) == pc = "done" /\ op = o

RECURSIVE Nodes(_)
Nodes(info) ==
    {info}
    \cup UNION {Nodes(info.nested[i]) : i \in 1..Len(info.nested)}
    \cup UNION {UNION {Nodes(t.annotations[i]) : i \in 1..Len(t.annotations)}
                : t \in {info.td[i] : i \in 1..Len(info.td)}}

SameResult(a, b) ==
    \/ IsErr(a) /\ IsErr(b) /\ a.exc = "DataError" /\ b.exc = "DataError"
    \/ /\ IsInfo(a) /\ IsInfo(b)
       /\ a.name = b.name /\ a.type = b.type /\ a.nested = b.nested

RECURSIVE Collected(_)
Collected(s) ==
    IF s = <<>> THEN <<>>
    ELSE (IF is_union(from_type_hint(Head(s)))
          THEN from_type_hint(Head(s)).nested
          ELSE <<from_type_hint(Head(s))>>) \o Collected(Tail(s))

AllAccepted(s) == \A i \in 1..Len(s) : IsInfo(from_type_hint(s[i]))

(* C2 as stated: whenever the collected list has a length other than 1,    *)
(* from_sequence returns a descriptor named 'Union' whose children are the *)
(* collected list, in order.                                               *)
C2_Original ==
    (Called("from_sequence") /\ AllAccepted(arg) /\ Len(Collected(arg)) # 1)
        => /\ IsInfo(ret) /\ ret.name = "Union"
           /\ ret.nested = Collected(arg)

(* C2 amended: whenever the collected list has at least 2 entries,         *)
(* from_sequence returns a descriptor named 'Union' whose children are the *)
(* collected list, in order; when it is empty (the empty sequence) no      *)
(* descriptor is returned: DataError.                                      *)
C2_Amended ==
    (Called("from_sequence") /\ AllAccepted(arg)) =>
        /\ Len(Collected(arg)) >= 2 =>
              /\ IsInfo(ret) /\ ret.name = "Union"
              /\ ret.nested = Collected(arg)
        /\ Len(Collected(arg)) = 0 => ret = EmptyUnionError

C2_Witness ==
    /\ Called("from_sequence") /\ Len(arg) = 2 /\ IsInfo(ret)
    /\ is_union(from_type_hint(arg[1])) /\ ~is_union(from_type_hint(arg[2]))
    /\ Len(ret.nested) = 3

(* C3: no builder returns a union descriptor (at any depth) without        *)
(* children, and from_sequence([]), from_type_hint(Union),                 *)
(* from_dict({'name': 'Union'}) without or with empty 'nested' and         *)
(* TypeInfo('Union', nested=()) raise DataError 'Union used as a type hint *)
(* cannot be empty.'                                                       *)
C3_NoEmptyUnion ==
    /\ (pc = "done" /\ IsInfo(ret)) =>
          \A n \in Nodes(ret) : is_union(n) => Len(n.nested) >= 1
    /\ (Called("from_sequence") /\ arg = <<>>) => ret = EmptyUnionError
    /\ (Called("from_type_hint") /\ arg.k = "Union") => ret = EmptyUnionError
    /\ (Called("from_dict") /\ arg.k = "dict" /\ arg.name = "Union"
            /\ (~arg.flag \/ arg.items = <<>>)) => ret = EmptyUnionError
    /\ (Called("TypeInfo") /\ arg.name = "Union" /\ arg.nested = <<>>)
          => ret = EmptyUnionError

C3_Witness ==
    /\ Called("from_dict") /\ arg.k = "dict" /\ arg.name = "Union" /\ ~arg.flag
    /\ ret = EmptyUnionError

(* The resolved type of TypeInfo(name, type, ...): the given type, else    *)
(* the alias the name stands for.                                          *)
Resolved(a) ==
    IF a.type # NoType THEN a.type
    ELSE IF a.name \in {"dict", "dictionary", "mapping", "map", "Mapping"} THEN "dict"
    ELSE IF a.name \in {"tuple", "Tuple"} THEN "tuple"
    ELSE "?"

MappingLike == {"dict", "OrderedDict", "TD:Point", "TD:Union"}

(* C4 as stated: a TypeInfo whose resolved type is mapping-like fails with *)
(* 'requires exactly 2 parameters' for every nested count n # 2 and        *)
(* succeeds for n = 2.                                                     *)
C4_Original ==
    (Called("TypeInfo") /\ Resolved(arg) \in MappingLike) =>
        IF Len(arg.nested) = 2 THEN IsInfo(ret)
        ELSE IsErr(ret) /\ ret.phrase = " requires exactly 2 parameters"

(* C4 amended: a TypeInfo whose name is not 'Union' and whose resolved     *)
(* type is mapping-like succeeds for n = 0 and for n = 2 and fails with    *)
(* 'requires exactly 2 parameters' (reporting n) for every other n.        *)
C4_Amended ==
    (Called("TypeInfo") /\ Resolved(arg) \in MappingLike /\ arg.name # "Union") =>
        IF Len(arg.nested) \in {0, 2}
        THEN IsInfo(ret) /\ ret.nested = arg.nested /\ ret.type = Resolved(arg)
        ELSE /\ IsErr(ret) /\ ret.exc = "DataError"
             /\ ret.phrase = " requires exactly 2 parameters"
             /\ ret.actual = Len(arg.nested)

C4_Witness ==
    /\ Called("TypeInfo") /\ arg.name = "map" /\ arg.type = NoType
    /\ Len(arg.nested) = 1 /\ IsErr(ret)
    /\ ret.msg = "'map[]' requires exactly 2 parameters, 'map[int]' has 1."

(* C5: a TypeInfo whose resolved type is tuple-like and whose name is not  *)
(* 'Union': with an Ellipsis last entry it succeeds iff there are exactly  *)
(* 2 entries and otherwise fails reporting len(nested) - 1; with another   *)
(* last entry every non-empty nested list is accepted.                     *)
C5_Tuple ==
    (Called("TypeInfo") /\ Resolved(arg) = "tuple" /\ arg.name # "Union"
        /\ Len(arg.nested) >= 1) =>
        IF arg.nested[Len(arg.nested)].type = "Ellipsis"
        THEN IF Len(arg.nested) = 2 THEN IsInfo(ret) /\ ret.nested = arg.nested
             ELSE /\ IsErr(ret) /\ ret.exc = "DataError"
                  /\ ret.actual = Len(arg.nested) - 1
        ELSE IsInfo(ret) /\ ret.nested = arg.nested

C5_Witness ==
    /\ Called("TypeInfo") /\ arg.name = "tuple" /\ arg.type = NoType
    /\ Len(arg.nested) = 3 /\ arg.nested[1].type = "Ellipsis"
    /\ arg.nested[3].type = "Ellipsis"
    /\ IsErr(ret) /\ ret.actual = 2 /\ ret.kind = "Homogenous tuple"

(* The arity rule of a node's resolved type, as C8 states it.              *)
ArityRule(n) ==
    /\ n.type = "Union" => Len(n.nested) >= 1
    /\ n.type \in MappingLike => Len(n.nested) \in {0, 2}
    /\ n.type \in {"list", "set", "frozenset"} => Len(n.nested) \in {0, 1}
    /\ (n.type = "tuple" /\ Len(n.nested) >= 1
            /\ n.nested[Len(n.nested)].type = "Ellipsis") => Len(n.nested) = 2
    /\ n.type \in (TYPE_NAMES_values
                   \ {"Union", "dict", "list", "set", "frozenset", "tuple"})
          => Len(n.nested) = 0

(* C8 as stated: every node of every tree a builder returns satisfies the  *)
(* arity rule of its resolved type, whatever its name.                     *)
C8_WellFormed ==
    (pc = "done" /\ IsInfo(ret)) => \A n \in Nodes(ret) : ArityRule(n)

(* C9 as stated: a union returned by from_sequence has no direct child     *)
(* that is itself a union.                                                 *)
C9_Flat ==
    (Called("from_sequence") /\ IsInfo(ret) /\ is_union(ret)) =>
        \A i \in 1..Len(ret.nested) : ~is_union(ret.nested[i])

(***************************************************************************)
(*                            TypeInfo.convert                             *)
(***************************************************************************)
(* A 'languages' argument is None or [k, v]: a text (k = "str", v = its    *)
(* language names, <<>> for ''), a list (k = "list") or a Languages object *)
(* (k = "Languages").                                                      *)
LanguagesArgs ==
    {None,
     [k |-> "str", v |-> <<>>],
     [k |-> "list", v |-> <<>>],
     [k |-> "str", v |-> <<"fi">>],
     [k |-> "list", v |-> <<"fi", "de">>],
     [k |-> "str", v |-> <<"xx">>],
     [k |-> "Languages", v |-> <<"en", "de">>]}

KnownLanguages == {"en", "fi", "de"}

(* Python truthiness of a 'languages' argument: None, '' and [] are false; *)
(* a Languages object is true.                                             *)
truthy(languages) ==
    languages # None /\ (languages.k = "Languages" \/ languages.v # <<>>)

(* robot.conf.Languages(languages): English plus the named languages;      *)
(* DataError for a language that does not exist.                           *)
Languages(languages) ==
    IF languages = None THEN [k |-> "Languages", v |-> <<"en">>]
    ELSE IF \E i \in 1..Len(languages.v) : languages.v[i] \notin KnownLanguages
    THEN [k |-> "err", exc |-> "DataError", msg |-> "No language found."]
    ELSE [k |-> "Languages", v |-> <<"en">> \o languages.v]

CustomConvertersArgs ==
    {None, [k |-> "dict"], [k |-> "CustomArgumentConverters", v |-> "given"]}

(* CustomArgumentConverters.from_dict                                      *)
CustomArgumentConverters_from_dict(converters) ==
    [k |-> "CustomArgumentConverters", v |-> "from_dict"]

(* What the registry answers is the environment's choice: no converter, a  *)
(* converter whose convert returns, or one whose convert raises.           *)
RegistryAnswers == {"none", "returns", "raises"}

(* converter.convert(value, name, kind) of the converter the registry gave *)
converter_convert(reg, value, name, kind) ==
    IF reg = "returns" THEN [k |-> "return", v |-> <<"converted", value>>]
    ELSE [k |-> "err", exc |-> "ValueError",
          msg |-> kind \o " '" \o name \o "' got value '" \o value
                  \o "' that cannot be converted."]

(* Lines 275-278: the languages handed to the registry.                    *)
convert_languages(languages, current) ==
    IF ~truthy(languages) /\ current # None THEN current.languages
    ELSE IF languages = None \/ languages.k # "Languages" THEN Languages(languages)
    ELSE languages

(* TypeInfo.convert: [lookup, calls, outcome] of one call, given the       *)
(* current context and the registry's answer.                              *)
convert_without_check(self, value, name, custom_converters, languages, kind, current, reg) ==
    LET cc == IF custom_converters # None /\ custom_converters.k = "dict"
              THEN CustomArgumentConverters_from_dict(custom_converters)
              ELSE custom_converters
        ls == convert_languages(languages, current)
    IN IF IsErr(ls) THEN [lookup |-> None, calls |-> <<>>, outcome |-> ls]
       ELSE [lookup |-> [type_info |-> self, custom_converters |-> cc,
                         languages |-> ls],
             calls |-> <<[value |-> value, name |-> name, kind |-> kind]>>,
             outcome |-> IF reg = "none"
                         THEN [k |-> "err", exc |-> "AttributeError",
                               msg |-> "'NoneType' object has no attribute 'convert'"]
                         ELSE converter_convert(reg, value, name, kind)]

convert(self, value, name, custom_converters, languages, kind, current, reg) ==
    LET cc == IF custom_converters # None /\ custom_converters.k = "dict"
              THEN CustomArgumentConverters_from_dict(custom_converters)
              ELSE custom_converters
        ls == convert_languages(languages, current)
    IN IF IsErr(ls) THEN [lookup |-> None, calls |-> <<>>, outcome |-> ls]
       ELSE IF reg = "none"
       THEN [lookup |-> [type_info |-> self, custom_converters |-> cc,
                         languages |-> ls],
             calls |-> <<>>,
             outcome |-> [k |-> "err", exc |-> "TypeError",
                          msg |-> "No converter found for '"
                                  \o TypeInfo_str(self) \o "'."]]
       ELSE [lookup |-> [type_info |-> self, custom_converters |-> cc,
                         languages |-> ls],
             calls |-> <<[value |-> value, name |-> name, kind |-> kind]>>,
             outcome |-> converter_convert(reg, value, name, kind)]

(* The descriptors convert is called on.                                   *)
ConvertInfos ==
    {from_type_hint(h) :
        h \in {IntType, UnionText, Hint("NOT_SET", "", NoType, <<>>, FALSE),
               Hint("str", "list[int]", NoType, <<>>, FALSE),
               Hint("dict", "Union", NoType, <<UnionText, IntType>>, TRUE),
               Hint("dict", "dict", NoType,
                    <<IntType, Hint("generic", "list", "list", <<IntType>>, TRUE)>>,
                    TRUE),
               Hint("typeddict", "Point", "TD:Point", <<IntType>>, TRUE)}}

ContextLanguages == [k |-> "Languages", v |-> <<"en", "fi">>]

InitConvert ==
    /\ InitBuild /\ InitRecordIdle
    /\ ctx \in {None, [languages |-> ContextLanguages]}
    /\ cargs = None /\ lookup = None /\ calls = <<>> /\ outcome = None

Convert ==
    /\ cargs = None
    /\ \E self \in ConvertInfos, value \in {"42", "x"}, name \in {"arg", "n"},
          custom_converters \in CustomConvertersArgs,
          languages \in LanguagesArgs, kind \in {"Argument", "Variable"},
          reg \in RegistryAnswers :
          \E r \in {convert(self, value, name, custom_converters, languages,
                            kind, ctx, reg)} :
             /\ cargs' = [self |-> self, value |-> value, name |-> name,
                          custom_converters |-> custom_converters,
                          languages |-> languages, kind |-> kind, reg |-> reg]
             /\ lookup' = r.lookup
             /\ calls' = r.calls
             /\ outcome' = r.outcome
    /\ UNCHANGED <<ctx, buildVars, recVars>>

ConvertReturn ==
    /\ cargs # None
    /\ cargs' = None /\ lookup' = None /\ calls' = <<>> /\ outcome' = None
    /\ UNCHANGED <<ctx, buildVars, recVars>>

(* The host starts and ends executions between calls.                      *)
StartExecution ==
    /\ cargs = None /\ ctx = None
    /\ ctx' = [languages |-> ContextLanguages]
    /\ UNCHANGED <<cargs, lookup, calls, outcome, buildVars, recVars>>

EndExecution ==
    /\ cargs = None /\ ctx # None
    /\ ctx' = None
    /\ UNCHANGED <<cargs, lookup, calls, outcome, buildVars, recVars>>

NextConvert == Convert \/ ConvertReturn \/ StartExecution \/ EndExecution

SpecConvert == InitConvert /\ [][NextConvert]_vars

(* The rendered form C6 describes: union arms joined by ' | ', a           *)
(* parametrized descriptor as name[child, ...], else the bare name.        *)
RECURSIVE Rendered(_)
RECURSIVE RenderedList(_, _)
RenderedList(infos, sep) ==
    IF Len(infos) = 1 THEN Rendered(infos[1])
    ELSE Rendered(Head(infos)) \o sep \o RenderedList(Tail(infos), sep)

Rendered(info) ==
    IF info.name = "Union" THEN RenderedList(info.nested, " | ")
    ELSE IF info.nested # <<>>
         THEN info.name \o "[" \o RenderedList(info.nested, ", ") \o "]"
    ELSE IF info.name = NoName THEN "" ELSE info.name

(* C6: when the registry gives no converter, convert raises TypeError      *)
(* "No converter found for '<rendered form>'." and calls no converter;     *)
(* when it gives one, convert calls it exactly once with (value, name,     *)
(* kind) and its result, or its failure, is the outcome.                   *)
C6_Convert ==
    (cargs # None /\ lookup # None) =>
        IF cargs.reg = "none"
        THEN /\ calls = <<>>
             /\ outcome = [k |-> "err", exc |-> "TypeError",
                           msg |-> "No converter found for '"
                                   \o Rendered(cargs.self) \o "'."]
        ELSE /\ calls = <<[value |-> cargs.value, name |-> cargs.name,
                           kind |-> cargs.kind]>>
             /\ outcome = converter_convert(cargs.reg, cargs.value, cargs.name,
                                            cargs.kind)
             /\ lookup.type_info = cargs.self

C6_Witness ==
    /\ cargs # None /\ lookup # None /\ cargs.reg = "none"
    /\ outcome.msg = "No converter found for 'dict[int, list[int]]'."
    /\ calls = <<>>

(* C7 as stated: a supplied 'languages' argument is what the registry      *)
(* receives (made a Languages object when it is not one), whether or not a *)
(* context is active; only when none was supplied the active context's     *)
(* languages; only when there is neither, the default Languages.           *)
C7_Precedence ==
    (cargs # None /\ lookup # None) =>
        lookup.languages =
            IF cargs.languages # None
            THEN IF cargs.languages.k = "Languages" THEN cargs.languages
                 ELSE Languages(cargs.languages)
            ELSE IF ctx # None THEN ctx.languages
            ELSE Languages(None)

(***************************************************************************)
(*       Step-wise resolution of a TypedDict hint (lines 158-159, 302-305) *)
(***************************************************************************)
(* Two TypedDict classes.  env.name[r] is r.__name__, env.fields[r] the    *)
(* hints of r.__annotations__ in order: "int" (a hint that is accepted),   *)
(* "bad" (a hint from_type_hint rejects with DataError, such as            *)
(* list[int, int]) or a TypedDict class.  stack holds one frame per        *)
(* TypedDictInfo under construction: the class and the index of the next   *)
(* annotation to resolve.  rpc = "overflow" stands for a recursion deeper  *)
(* than MaxDepth.                                                          *)
Recs == {"R1", "R2"}

FieldHints == {"int", "bad"} \cup Recs

Envs ==
    {[name |-> [r \in Recs |-> IF r = "R1" THEN "Point" ELSE n2], fields |-> fs]
     : n2 \in {"Line", "Union"},
       fs \in [Recs -> SeqsUpTo(FieldHints, MaxFields)]}

(* Entering TypedDictInfo(name, type) with the frames stk below it:        *)
(* super().__init__ raises for the name 'Union'; else the annotations are  *)
(* resolved next.                                                          *)
td_enter_tracking(e, stk, r) ==
    IF e.name[r] = "Union" THEN [stack |-> <<>>, rpc |-> "error"]
    ELSE IF \E i \in 1..Len(stk) : stk[i].rec = r
    THEN [stack |-> [stk EXCEPT ![Len(stk)].idx = @ + 1], rpc |-> "run"]
    ELSE [stack |-> Append(stk, [rec |-> r, idx |-> 1]), rpc |-> "run"]

td_enter(e, stk, r) ==
    IF e.name[r] = "Union" THEN [stack |-> <<>>, rpc |-> "error"]
    ELSE IF Len(stk) >= MaxDepth THEN [stack |-> stk, rpc |-> "overflow"]
    ELSE [stack |-> Append(stk, [rec |-> r, idx |-> 1]), rpc |-> "run"]

Top == stack[Len(stack)]

NextField == env.fields[Top.rec][Top.idx]

HasNextField == Top.idx <= Len(env.fields[Top.rec])

InitRecord ==
    /\ InitBuild /\ InitConvertIdle
    /\ env \in Envs /\ start = "R1" /\ stack = <<>> /\ rpc = "idle"

(* from_type_hint(start): isinstance(hint, typeddict_types)                *)
ResolveStart ==
    /\ rpc = "idle" /\ env # None
    /\ \E r \in {td_enter(env, <<>>, start)} : stack' = r.stack /\ rpc' = r.rpc
    /\ UNCHANGED <<env, start, buildVars, convVars>>

(* The next annotation is a hint that is accepted.                         *)
ResolvePlainField ==
    /\ rpc = "run" /\ HasNextField /\ NextField = "int"
    /\ stack' = [stack EXCEPT ![Len(stack)].idx = @ + 1]
    /\ UNCHANGED <<rpc, env, start, buildVars, convVars>>

(* The next annotation is rejected: DataError leaves every frame.          *)
ResolveRejectedField ==
    /\ rpc = "run" /\ HasNextField /\ NextField = "bad"
    /\ stack' = <<>> /\ rpc' = "error"
    /\ UNCHANGED <<env, start, buildVars, convVars>>

(* The next annotation is a TypedDict class: a new TypedDictInfo.          *)
ResolveRecordField ==
    /\ rpc = "run" /\ HasNextField /\ NextField \in Recs
    /\ \E r \in {td_enter(env, stack, NextField)} : stack' = r.stack /\ rpc' = r.rpc
    /\ UNCHANGED <<env, start, buildVars, convVars>>

(* Every annotation is resolved: the TypedDictInfo is returned.            *)
FinishRecord ==
    /\ rpc = "run" /\ ~HasNextField
    /\ IF Len(stack) = 1
       THEN stack' = <<>> /\ rpc' = "done"
       ELSE /\ stack' = [SubSeq(stack, 1, Len(stack) - 1)
                            EXCEPT ![Len(stack) - 1].idx = @ + 1]
            /\ rpc' = "run"
    /\ UNCHANGED <<env, start, buildVars, convVars>>

NextRecord ==
    \/ ResolveStart
    \/ ResolvePlainField
    \/ ResolveRejectedField
    \/ ResolveRecordField
    \/ FinishRecord

SpecRecord == InitRecord /\ [][NextRecord]_vars

(* The resolution is one synchronous call: it takes its next step.         *)
FairSpecRecord == SpecRecord /\ WF_vars(NextRecord)

(* The record classes among r's field hints, those reachable from r, and   *)
(* whether r is reachable from its own field hints.                        *)
Refs(e, r) == {e.fields[r][i] : i \in 1..Len(e.fields[r])} \cap Recs

ReachFrom(e, r) ==
    Refs(e, r) \cup UNION {Refs(e, q) : q \in Refs(e, r)}

OnCycle(e, r) == r \in ReachFrom(e, r)

CycleReachable(e, r) == \E q \in {r} \cup ReachFrom(e, r) : OnCycle(e, q)

Clean(e, r) ==
    \A q \in {r} \cup ReachFrom(e, r) :
        /\ e.name[q] # "Union"
        /\ \A i \in 1..Len(e.fields[q]) : e.fields[q][i] # "bad"

(* C10 as stated: for a record type reachable from its own field hints the *)
(* resolution never completes (it neither returns nor raises DataError).   *)
C10_Original ==
    (env # None /\ OnCycle(env, start)) => rpc \notin {"done", "error"}

(* C10 amended: the resolution of a record type from which no record type  *)
(* on a cycle is reachable terminates (a descriptor or DataError, never a  *)
(* recursion beyond the bound); the resolution of a record type reachable  *)
(* from its own field hints never returns a descriptor, and when no record *)
(* reachable from it is named 'Union' or has a rejected field hint it      *)
(* never completes at all: it re-enters record construction without bound. *)
(* (Otherwise DataError may end it first.)                                 *)
C10_Amended ==
    /\ [](env # None /\ OnCycle(env, start) => rpc # "done")
    /\ [](env # None /\ OnCycle(env, start) /\ Clean(env, start)
            => rpc \notin {"done", "error"})
    /\ [](env # None /\ ~CycleReachable(env, start) => rpc # "overflow")
    /\ (env # None /\ ~CycleReachable(env, start)) => <>(rpc \in {"done", "error"})
    /\ (env # None /\ OnCycle(env, start) /\ Clean(env, start)) => <>(rpc = "overflow")

C10_Witness ==
    /\ env # None /\ OnCycle(env, start) /\ "R2" \in ReachFrom(env, start)
    /\ rpc = "overflow" /\ Len(stack) = MaxDepth
    /\ stack[1].rec = "R1" /\ stack[2].rec = "R2" /\ stack[3].rec = "R1"

====
